---------------------------- MODULE Spec2Model ----------------------------
(***************************************************************************)
(* A model of the password analysis library: src/src/pattern_detector.py   *)
(* (class PatternDetector) and src/src/entropy_calculator.py (class        *)
(* EntropyCalculator).                                                     *)
(*                                                                         *)
(* Representation.                                                         *)
(*  - A password is a sequence of code points (Python's ord), restricted   *)
(*    to Latin-1 (0..255); positions in findings are 0-based as in Python. *)
(*  - A Python float that holds an entropy is an integer number of         *)
(*    hundredths of a bit (the code rounds every entropy to 2 decimals).   *)
(*  - A Python float that holds a number of guesses or of seconds is kept  *)
(*    as its base-2 logarithm in millionths of a bit (2 ** x, x / 2,       *)
(*    x / 1e9 and x < c are then exact integer operations); 0.0 is LgZero. *)
(*  - A Python int of unbounded size (pool_size ** length) is a sequence   *)
(*    of base-10000 limbs, least significant first.                        *)
(*  - A raised exception is the record [raised |-> <exception name>].      *)
(***************************************************************************)
EXTENDS Integers, Sequences, FiniteSets, TLC

(***************************************************************************)
(* Python str helpers                                                      *)
(***************************************************************************)
Min(a, b) == IF a <= b THEN a ELSE b

Max(a, b) == IF a >= b THEN a ELSE b

\* s[i:j] for 0 <= i, any j (Python clips the slice to the string)
Slice(s, i, j) == SubSeq(s, i + 1, Min(j, Len(s)))

\* pattern in s
IsSubstr(p, s) ==
    \E k \in 0..(Len(s) - Len(p)) : SubSeq(s, k + 1, k + Len(p)) = p

\* s.index(pattern), for a pattern that occurs in s
Index(p, s) ==
    CHOOSE k \in 0..(Len(s) - Len(p)) :
        /\ SubSeq(s, k + 1, k + Len(p)) = p
        /\ \A m \in 0..(k - 1) : SubSeq(s, m + 1, m + Len(p)) # p

\* c.isdigit()
IsDigit(c) == c \in (48..57) \cup {178, 179, 185}

\* regex \d, and the characters int() accepts
IsDecimal(c) == c \in 48..57

\* c.isupper()
IsUpper(c) == c \in (65..90) \cup (192..214) \cup (216..222)

\* c.islower()
IsLower(c) == c \in (97..122) \cup {170, 181, 186} \cup (223..246) \cup (248..255)

\* c.isalnum()
IsAlnum(c) ==
    c \in (48..57) \cup (65..90) \cup (97..122) \cup {170, 178, 179, 181, 185, 186}
          \cup (188..190) \cup (192..214) \cup (216..246) \cup (248..255)

\* regex [a-z], [A-Z], [^a-zA-Z0-9]
IsAsciiLower(c) == c \in 97..122

IsAsciiUpper(c) == c \in 65..90

IsPoolSpecial(c) == ~(IsAsciiLower(c) \/ IsAsciiUpper(c) \/ c \in 48..57)

\* c.lower()
LowerChar(c) == IF IsUpper(c) THEN c + 32 ELSE c

\* s.lower()
Lower(s) == [k \in 1..Len(s) |-> LowerChar(s[k])]

\* s[::-1]
Reverse(s) == [k \in 1..Len(s) |-> s[Len(s) + 1 - k]]

\* the concatenation of a sequence of sequences
RECURSIVE Flatten(_)
Flatten(ss) == IF ss = <<>> THEN <<>> ELSE Head(ss) \o Flatten(Tail(ss))

\* [f(x) for x in s]
MapSeq(s, F(_)) == [k \in 1..Len(s) |-> F(s[k])]

(***************************************************************************)
(* PatternDetector: reference tables                                       *)
(***************************************************************************)
\* 'qwertyuiop', 'asdfghjkl', 'zxcvbnm', '1234567890', '!@#$%^&*()'
KEYBOARD_ROWS ==
    << <<113,119,101,114,116,121,117,105,111,112>>,
       <<97,115,100,102,103,104,106,107,108>>,
       <<122,120,99,118,98,110,109>>,
       <<49,50,51,52,53,54,55,56,57,48>>,
       <<33,64,35,36,37,94,38,42,40,41>> >>

\* 'qwerty','asdfgh','zxcvbn','qaz','wsx','edc','rfv','tgb','yhn','ujm','ik',
\* 'ol','p','1qaz','2wsx','3edc','4rfv','5tgb','6yhn','7ujm','8ik','9ol','0p'
KEYBOARD_WALKS ==
    << <<113,119,101,114,116,121>>, <<97,115,100,102,103,104>>,
       <<122,120,99,118,98,110>>,
       <<113,97,122>>, <<119,115,120>>, <<101,100,99>>, <<114,102,118>>,
       <<116,103,98>>, <<121,104,110>>, <<117,106,109>>, <<105,107>>,
       <<111,108>>, <<112>>,
       <<49,113,97,122>>, <<50,119,115,120>>, <<51,101,100,99>>,
       <<52,114,102,118>>, <<53,116,103,98>>, <<54,121,104,110>>,
       <<55,117,106,109>>, <<56,105,107>>, <<57,111,108>>, <<48,112>> >>

\* letter -> substitutes, in the dict's order a e i o s t l g b z
LEET_SUBSTITUTIONS ==
    << [letter |-> 97,  substitutes |-> {52, 64}],
       [letter |-> 101, substitutes |-> {51}],
       [letter |-> 105, substitutes |-> {49, 33}],
       [letter |-> 111, substitutes |-> {48}],
       [letter |-> 115, substitutes |-> {53, 36}],
       [letter |-> 116, substitutes |-> {55}],
       [letter |-> 108, substitutes |-> {49}],
       [letter |-> 103, substitutes |-> {57}],
       [letter |-> 98,  substitutes |-> {56}],
       [letter |-> 122, substitutes |-> {50}] >>

\* 'password','admin','welcome','login','user','letmein','monkey','dragon',
\* 'master','sunshine'
COMMON_PATTERNS ==
    << <<112,97,115,115,119,111,114,100>>, <<97,100,109,105,110>>,
       <<119,101,108,99,111,109,101>>, <<108,111,103,105,110>>,
       <<117,115,101,114>>, <<108,101,116,109,101,105,110>>,
       <<109,111,110,107,101,121>>, <<100,114,97,103,111,110>>,
       <<109,97,115,116,101,114>>, <<115,117,110,115,104,105,110,101>> >>

(***************************************************************************)
(* detect_keyboard_patterns                                                *)
(* Every detector below yields [result, log, raised]: the dict it returns, *)
(* what it appended to self.detected_patterns, and the exception it raised *)
(* ("" when it returned).                                                  *)
(***************************************************************************)
\* row[start:start+length] for start in range(len(row) - length + 1)
SubstringsOfLen(row, length) ==
    [k \in 1..(Len(row) - length + 1) |-> SubSeq(row, k, k + length - 1)]

\* ... for length in range(3, len(row) + 1)
RECURSIVE RowSubstringsFrom(_, _)
RowSubstringsFrom(row, length) ==
    IF length > Len(row) THEN <<>>
    ELSE SubstringsOfLen(row, length) \o RowSubstringsFrom(row, length + 1)

\* the patterns of the first loop, in the order the loop tests them
RowPatterns == Flatten(MapSeq(KEYBOARD_ROWS, LAMBDA row : RowSubstringsFrom(row, 3)))

\* the patterns of the third loop (reversed rows)
ReversedRowPatterns ==
    Flatten(MapSeq(KEYBOARD_ROWS, LAMBDA row : RowSubstringsFrom(Reverse(row), 3)))

detect_keyboard_patterns(password) ==
    LET password_lower == Lower(password)
        rows == SelectSeq(RowPatterns,
                          LAMBDA p : IsSubstr(p, password_lower) /\ Len(p) >= 3)
        walks == SelectSeq(KEYBOARD_WALKS, LAMBDA w : IsSubstr(w, password_lower))
        revs == SelectSeq(ReversedRowPatterns,
                          LAMBDA p : IsSubstr(p, password_lower) /\ Len(p) >= 3)
        found_patterns ==
            MapSeq(rows, LAMBDA p : [type |-> "keyboard_row", pattern |-> p,
                                     length |-> Len(p),
                                     position |-> Index(p, password_lower)])
            \o MapSeq(walks, LAMBDA w : [type |-> "keyboard_walk", pattern |-> w,
                                         length |-> Len(w)])
            \o MapSeq(revs, LAMBDA p : [type |-> "reversed_keyboard", pattern |-> p,
                                        length |-> Len(p)])
    IN  [result |-> [found |-> Len(found_patterns) > 0,
                     patterns |-> found_patterns,
                     count |-> Len(found_patterns)],
         log |-> MapSeq(rows, LAMBDA p : <<"Keyboard row", p>>)
                 \o MapSeq(walks, LAMBDA w : <<"Keyboard walk", w>>),
         raised |-> ""]

(***************************************************************************)
(* detect_sequential_patterns                                              *)
(***************************************************************************)
\* list(range(n))
Range0(n) == [k \in 1..n |-> k - 1]

\* the while loops of the alphabetic part: the length the run starting at i
\* (0-based) reaches when it is extended while ord(s[i+seq_len]) is
\* ord(s[i]) + step*seq_len
RECURSIVE ExtendOrd(_, _, _, _)
ExtendOrd(s, i, seq_len, step) ==
    IF i + seq_len < Len(s) /\ s[i + seq_len + 1] = s[i + 1] + step * seq_len
    THEN ExtendOrd(s, i, seq_len + 1, step)
    ELSE seq_len

\* one iteration of the first loop: the findings appended at index i
AlphabeticAt(s, i) ==
    LET fwd == s[i + 2] = s[i + 1] + 1 /\ s[i + 3] = s[i + 1] + 2
        bwd == s[i + 2] = s[i + 1] - 1 /\ s[i + 3] = s[i + 1] - 2
        flen == ExtendOrd(s, i, 3, 1)
        blen == ExtendOrd(s, i, 3, -1)
    IN  (IF fwd THEN << [type |-> "alphabetic_forward",
                         sequence |-> Slice(s, i, i + flen),
                         length |-> flen, position |-> i] >>
         ELSE <<>>)
        \o
        (IF bwd THEN << [type |-> "alphabetic_backward",
                         sequence |-> Slice(s, i, i + blen),
                         length |-> blen, position |-> i] >>
         ELSE <<>>)

\* the first loop: for i in range(len(password_lower) - 2)
AlphabeticSequences(password_lower) ==
    Flatten(MapSeq(Range0(Max(0, Len(password_lower) - 2)),
                   LAMBDA i : AlphabeticAt(password_lower, i)))

\* the while loops of the numeric part: [len, raised], where int() raises
\* ValueError on a character that isdigit() accepts and int() does not
RECURSIVE ExtendInt(_, _, _, _)
ExtendInt(s, i, seq_len, step) ==
    IF i + seq_len < Len(s) /\ IsDigit(s[i + seq_len + 1])
    THEN IF ~IsDecimal(s[i + seq_len + 1])
         THEN [len |-> seq_len, raised |-> "ValueError"]
         ELSE IF s[i + seq_len + 1] - 48 = (s[i + 1] - 48) + step * seq_len
              THEN ExtendInt(s, i, seq_len + 1, step)
              ELSE [len |-> seq_len, raised |-> ""]
    ELSE [len |-> seq_len, raised |-> ""]

\* the second loop from index i on: acc holds the findings so far
RECURSIVE NumericLoop(_, _, _)
NumericLoop(s, i, acc) ==
    IF i >= Len(s) - 2 THEN [found |-> acc, raised |-> ""]
    ELSE IF ~(IsDigit(s[i + 1]) /\ IsDigit(s[i + 2]) /\ IsDigit(s[i + 3]))
    THEN NumericLoop(s, i + 1, acc)
    ELSE IF ~(IsDecimal(s[i + 1]) /\ IsDecimal(s[i + 2]) /\ IsDecimal(s[i + 3]))
    THEN [found |-> acc, raised |-> "ValueError"]
    ELSE
      LET num1 == s[i + 1] - 48
          num2 == s[i + 2] - 48
          num3 == s[i + 3] - 48
          fwd == num2 = num1 + 1 /\ num3 = num2 + 1
          bwd == num2 = num1 - 1 /\ num3 = num2 - 1
          ext == ExtendInt(s, i, 3, IF fwd THEN 1 ELSE -1)
      IN  IF ~(fwd \/ bwd) THEN NumericLoop(s, i + 1, acc)
          ELSE IF ext.raised # "" THEN [found |-> acc, raised |-> ext.raised]
          ELSE NumericLoop(s, i + 1,
                 Append(acc, [type |-> IF fwd THEN "numeric_forward"
                                              ELSE "numeric_backward",
                              sequence |-> Slice(s, i, i + ext.len),
                              length |-> ext.len, position |-> i]))

\* the text appended to self.detected_patterns for a sequential finding
SequenceLog(f) ==
    << CASE f.type = "alphabetic_forward" -> "Alphabetic sequence"
         [] f.type = "alphabetic_backward" -> "Reverse alphabetic"
         [] f.type = "numeric_forward" -> "Numeric sequence"
         [] OTHER -> "Reverse numeric",
       f.sequence >>

detect_sequential_patterns(password) ==
    LET alpha == AlphabeticSequences(Lower(password))
        num == NumericLoop(password, 0, <<>>)
        found_sequences == alpha \o num.found
    IN  [result |-> [found |-> Len(found_sequences) > 0,
                     sequences |-> found_sequences,
                     count |-> Len(found_sequences)],
         log |-> MapSeq(found_sequences, SequenceLog),
         raised |-> num.raised]

(***************************************************************************)
(* detect_repetition_patterns                                              *)
(***************************************************************************)
\* the inner while loop: the length of the run of password[i] starting at i
RECURSIVE RunLength(_, _, _)
RunLength(s, i, count) ==
    IF i + count < Len(s) /\ s[i + count + 1] = s[i + 1]
    THEN RunLength(s, i, count + 1)
    ELSE count

\* the outer while loop with i += 1 in the place of i += count
RECURSIVE CharacterRepetitionsEveryOffset(_, _)
CharacterRepetitionsEveryOffset(s, i) ==
    IF i >= Len(s) THEN <<>>
    ELSE LET count == RunLength(s, i, 1)
         IN  (IF count >= 3
              THEN << [type |-> "character_repetition", character |-> s[i + 1],
                       count |-> count, position |-> i] >>
              ELSE <<>>)
             \o CharacterRepetitionsEveryOffset(s, i + 1)

\* the outer while loop from index i on
RECURSIVE CharacterRepetitions(_, _)
CharacterRepetitions(s, i) ==
    IF i >= Len(s) THEN <<>>
    ELSE LET count == RunLength(s, i, 1)
         IN  (IF count >= 3
              THEN << [type |-> "character_repetition", character |-> s[i + 1],
                       count |-> count, position |-> i] >>
              ELSE <<>>)
             \o CharacterRepetitions(s, i + count)

\* the while loop counting the copies of sequence from pos on
RECURSIVE RepeatCount(_, _, _, _)
RepeatCount(s, i, seq_len, repeat_count) ==
    LET pos == i + seq_len * repeat_count
    IN  IF pos + seq_len <= Len(s)
           /\ Slice(s, pos, pos + seq_len) = Slice(s, i, i + seq_len)
        THEN RepeatCount(s, i, seq_len, repeat_count + 1)
        ELSE repeat_count

\* the inner for loop without the break of line 307
RECURSIVE SequenceRepetitionAtEveryOffset(_, _, _)
SequenceRepetitionAtEveryOffset(s, seq_len, i) ==
    IF i > Len(s) - seq_len * 2 THEN <<>>
    ELSE IF Slice(s, i + seq_len, i + seq_len * 2) = Slice(s, i, i + seq_len)
    THEN << [type |-> "sequence_repetition",
             sequence |-> Slice(s, i, i + seq_len),
             repeat_count |-> RepeatCount(s, i, seq_len, 2), position |-> i] >>
         \o SequenceRepetitionAtEveryOffset(s, seq_len, i + 1)
    ELSE SequenceRepetitionAtEveryOffset(s, seq_len, i + 1)

\* the inner for loop for one seq_len, from index i on: stops at the first hit
RECURSIVE SequenceRepetitionAt(_, _, _)
SequenceRepetitionAt(s, seq_len, i) ==
    IF i > Len(s) - seq_len * 2 THEN <<>>
    ELSE IF Slice(s, i + seq_len, i + seq_len * 2) = Slice(s, i, i + seq_len)
    THEN LET repeat_count == RepeatCount(s, i, seq_len, 2)
         IN  IF repeat_count >= 2
             THEN << [type |-> "sequence_repetition",
                      sequence |-> Slice(s, i, i + seq_len),
                      repeat_count |-> repeat_count, position |-> i] >>
             ELSE SequenceRepetitionAt(s, seq_len, i + 1)
    ELSE SequenceRepetitionAt(s, seq_len, i + 1)

\* for seq_len in range(2, len(password) // 2 + 1)
SequenceRepetitions(s) ==
    Flatten([k \in 1..Max(0, Len(s) \div 2 - 1) |-> SequenceRepetitionAt(s, k + 1, 0)])

RepetitionLog(f) ==
    IF f.type = "character_repetition"
    THEN <<"Repeated character", <<f.character>>, f.count>>
    ELSE <<"Repeated sequence", f.sequence, f.repeat_count>>

detect_repetition_patterns(password) ==
    LET repetitions == CharacterRepetitions(password, 0) \o SequenceRepetitions(password)
    IN  [result |-> [found |-> Len(repetitions) > 0,
                     repetitions |-> repetitions,
                     count |-> Len(repetitions)],
         log |-> MapSeq(repetitions, RepetitionLog),
         raised |-> ""]

(***************************************************************************)
(* detect_leet_speak                                                       *)
(***************************************************************************)
\* re.search(r'[...]', password) for a character class given as a set
HasAny(password, class) == \E k \in 1..Len(password) : password[k] \in class

\* the entries the two nested loops append for one character of
\* password.lower(): the condition is
\*   (char_lower in substitutes and orig.isdigit()) or orig in ['@', '$', '!']
\* with orig = password[password.lower().index(char_lower)]
LeetEntriesFor(password, char_lower) ==
    LET orig == password[Index(<<char_lower>>, Lower(password)) + 1]
        hits == SelectSeq(LEET_SUBSTITUTIONS,
                          LAMBDA e : (char_lower \in e.substitutes /\ IsDigit(orig))
                                     \/ orig \in {64, 36, 33})
    IN  MapSeq(hits, LAMBDA e : [original |-> e.letter, substitute |-> orig])

detect_leet_speak(password) ==
    LET leet_chars_found ==
            Flatten(MapSeq(Lower(password), LAMBDA c : LeetEntriesFor(password, c)))
        leet_score ==
            (IF HasAny(password, {52, 64}) THEN 1 ELSE 0)
            + (IF HasAny(password, {51}) THEN 1 ELSE 0)
            + (IF HasAny(password, {49, 33}) THEN 1 ELSE 0)
            + (IF HasAny(password, {48}) THEN 1 ELSE 0)
            + (IF HasAny(password, {53, 36}) THEN 1 ELSE 0)
        uses_leet == leet_score >= 2
    IN  [result |-> [found |-> uses_leet,
                     leet_score |-> leet_score,
                     substitutions |-> leet_chars_found,
                     strength_reduction |-> leet_score * 5],
         log |-> IF uses_leet THEN << <<"Uses leetspeak substitutions">> >> ELSE <<>>,
         raised |-> ""]

(***************************************************************************)
(* detect_date_patterns                                                    *)
(***************************************************************************)
\* int() of a string of decimal digits
RECURSIVE IntOf(_)
IntOf(digits) ==
    IF digits = <<>> THEN 0
    ELSE IntOf(SubSeq(digits, 1, Len(digits) - 1)) * 10 + (digits[Len(digits)] - 48)

\* (19\d{2}|20\d{2}) matches at index i
YearMatchAt(s, i) ==
    /\ i + 4 <= Len(s)
    /\ Slice(s, i, i + 2) \in { <<49, 57>>, <<50, 48>> }
    /\ IsDecimal(s[i + 3]) /\ IsDecimal(s[i + 4])

\* (0[1-9]|1[0-2]) matches the two characters at index i
MonthAt(s, i) ==
    \/ s[i + 1] = 48 /\ s[i + 2] \in 49..57
    \/ s[i + 1] = 49 /\ s[i + 2] \in 48..50

\* (0[1-9]|[12]\d|3[01]) matches the two characters at index i
DayAt(s, i) ==
    \/ s[i + 1] = 48 /\ s[i + 2] \in 49..57
    \/ s[i + 1] \in {49, 50} /\ IsDecimal(s[i + 2])
    \/ s[i + 1] = 51 /\ s[i + 2] \in {48, 49}

\* (19|20)\d{2} matches the four characters at index i
CenturyYearAt(s, i) ==
    /\ Slice(s, i, i + 2) \in { <<49, 57>>, <<50, 48>> }
    /\ IsDecimal(s[i + 3]) /\ IsDecimal(s[i + 4])

\* the MMDDYYYY pattern matches at index i
MMDDYYYYAt(s, i) ==
    i + 8 <= Len(s) /\ MonthAt(s, i) /\ DayAt(s, i + 2) /\ CenturyYearAt(s, i + 4)

\* the DDMMYYYY pattern matches at index i
DDMMYYYYAt(s, i) ==
    i + 8 <= Len(s) /\ DayAt(s, i) /\ MonthAt(s, i + 2) /\ CenturyYearAt(s, i + 4)

\* the indexes at which a pattern of a fixed width matches in s
MatchesOf(s, width, MatchAt(_, _)) ==
    {i \in 0..Len(s) : i + width <= Len(s) /\ MatchAt(s, i)}

\* re.finditer for a pattern of fixed width, given the indexes at which it
\* matches in a string of this length: the start indexes of the leftmost
\* non-overlapping matches from index i on
RECURSIVE FindIter(_, _, _, _)
FindIter(matches, width, length, i) ==
    IF i + width > length THEN <<>>
    ELSE IF i \in matches THEN <<i>> \o FindIter(matches, width, length, i + width)
    ELSE FindIter(matches, width, length, i + 1)

detect_date_patterns(password, current_year) ==
    LET year_hits == SelectSeq(
                       FindIter(MatchesOf(password, 4, YearMatchAt), 4, Len(password), 0),
                       LAMBDA i : LET year == IntOf(Slice(password, i, i + 4))
                                  IN  1900 <= year /\ year <= current_year + 10)
        years == MapSeq(year_hits,
                   LAMBDA i : [type |-> "year",
                               value |-> IntOf(Slice(password, i, i + 4)),
                               position |-> i])
        FullDate(i) == [type |-> "full_date", value |-> Slice(password, i, i + 8),
                        position |-> i]
        full == MapSeq(FindIter(MatchesOf(password, 8, MMDDYYYYAt), 8, Len(password), 0),
                       FullDate)
                \o MapSeq(FindIter(MatchesOf(password, 8, DDMMYYYYAt), 8, Len(password), 0),
                          FullDate)
        dates_found == years \o full
    IN  [result |-> [found |-> Len(dates_found) > 0,
                     dates |-> dates_found,
                     count |-> Len(dates_found)],
         log |-> MapSeq(years, LAMBDA f : <<"Year detected", f.value>>)
                 \o MapSeq(full, LAMBDA f : <<"Date pattern", f.value>>),
         raised |-> ""]

(***************************************************************************)
(* detect_common_words                                                     *)
(***************************************************************************)
detect_common_words(password) ==
    LET password_lower == Lower(password)
        words == SelectSeq(COMMON_PATTERNS, LAMBDA w : IsSubstr(w, password_lower))
        found_words == MapSeq(words, LAMBDA w : [word |-> w,
                                                 position |-> Index(w, password_lower)])
    IN  [result |-> [found |-> Len(found_words) > 0,
                     words |-> found_words,
                     count |-> Len(found_words)],
         log |-> MapSeq(words, LAMBDA w : <<"Common word", w>>),
         raised |-> ""]

(***************************************************************************)
(* analyze_character_patterns                                              *)
(***************************************************************************)
\* the dict {} : a record with no field
EmptyDict == <<>>

\* max(positions) - min(positions) < len(password) / 2, for a set of more
\* than one position
Clustered(positions, length) ==
    /\ Cardinality(positions) > 1
    /\ LET hi == CHOOSE x \in positions : \A y \in positions : y <= x
           lo == CHOOSE x \in positions : \A y \in positions : x <= y
       IN  2 * (hi - lo) < length

\* the middle taken as password[1:-1]
analyze_character_patterns_wide_middle(password) ==
    IF password = <<>> THEN [result |-> EmptyDict, log |-> <<>>, raised |-> ""]
    ELSE
      LET n == Len(password)
          starts_with_upper == IsUpper(password[1])
          ends_with_digit == IsDigit(password[n])
          ends_with_special == ~IsAlnum(password[n])
          \* password[1:-1]: the indexes 1 .. len-2
          middle == SubSeq(password, 2, n - 1)
          follows_common_structure ==
              /\ starts_with_upper
              /\ \E k \in 1..Len(middle) : IsLower(middle[k])
              /\ (ends_with_digit \/ ends_with_special)
          digit_positions == {k \in 0..(n - 1) : IsDigit(password[k + 1])}
          special_positions == {k \in 0..(n - 1) : ~IsAlnum(password[k + 1])}
      IN  [result |-> [starts_with_uppercase |-> starts_with_upper,
                       ends_with_digit |-> ends_with_digit,
                       ends_with_special |-> ends_with_special,
                       follows_common_structure |-> follows_common_structure,
                       digits_clustered |-> Clustered(digit_positions, n),
                       specials_clustered |-> Clustered(special_positions, n)],
           log |-> IF follows_common_structure
                   THEN << <<"Follows common structure: Upper+lower+digits/special">> >>
                   ELSE <<>>,
           raised |-> ""]

analyze_character_patterns(password) ==
    IF password = <<>> THEN [result |-> EmptyDict, log |-> <<>>, raised |-> ""]
    ELSE
      LET n == Len(password)
          starts_with_upper == IsUpper(password[1])
          ends_with_digit == IsDigit(password[n])
          ends_with_special == ~IsAlnum(password[n])
          \* password[1:-2]: the indexes 1 .. len-3
          middle == SubSeq(password, 2, n - 2)
          follows_common_structure ==
              /\ starts_with_upper
              /\ \E k \in 1..Len(middle) : IsLower(middle[k])
              /\ (ends_with_digit \/ ends_with_special)
          digit_positions == {k \in 0..(n - 1) : IsDigit(password[k + 1])}
          special_positions == {k \in 0..(n - 1) : ~IsAlnum(password[k + 1])}
      IN  [result |-> [starts_with_uppercase |-> starts_with_upper,
                       ends_with_digit |-> ends_with_digit,
                       ends_with_special |-> ends_with_special,
                       follows_common_structure |-> follows_common_structure,
                       digits_clustered |-> Clustered(digit_positions, n),
                       specials_clustered |-> Clustered(special_positions, n)],
           log |-> IF follows_common_structure
                   THEN << <<"Follows common structure: Upper+lower+digits/special">> >>
                   ELSE <<>>,
           raised |-> ""]

(***************************************************************************)
(* _calculate_pattern_score, _generate_warnings                            *)
(***************************************************************************)
\* the score with every min(...) cap of lines 498-520 left out
_calculate_pattern_score_uncapped(results) ==
    (IF results.keyboard_patterns.found
     THEN results.keyboard_patterns.count * 10 ELSE 0)
    + (IF results.sequential_patterns.found
       THEN results.sequential_patterns.count * 8 ELSE 0)
    + (IF results.repetition_patterns.found
       THEN results.repetition_patterns.count * 7 ELSE 0)
    + (IF results.leet_speak.found
       THEN results.leet_speak.leet_score * 3 ELSE 0)
    + (IF results.date_patterns.found
       THEN results.date_patterns.count * 10 ELSE 0)
    + (IF results.common_words.found
       THEN results.common_words.count * 15 ELSE 0)

\* the score with 10 more for a password that follows the common structure
_calculate_pattern_score_structure(results) ==
    LET score ==
          (IF results.keyboard_patterns.found
           THEN Min(20, results.keyboard_patterns.count * 10) ELSE 0)
          + (IF results.sequential_patterns.found
             THEN Min(20, results.sequential_patterns.count * 8) ELSE 0)
          + (IF results.repetition_patterns.found
             THEN Min(15, results.repetition_patterns.count * 7) ELSE 0)
          + (IF results.leet_speak.found
             THEN Min(10, results.leet_speak.leet_score * 3) ELSE 0)
          + (IF results.date_patterns.found
             THEN Min(15, results.date_patterns.count * 10) ELSE 0)
          + (IF results.common_words.found
             THEN Min(20, results.common_words.count * 15) ELSE 0)
          + (IF "follows_common_structure" \in DOMAIN results.character_patterns
                /\ results.character_patterns.follows_common_structure
             THEN 10 ELSE 0)
    IN  Min(100, score)

_calculate_pattern_score(results) ==
    LET score ==
          (IF results.keyboard_patterns.found
           THEN Min(20, results.keyboard_patterns.count * 10) ELSE 0)
          + (IF results.sequential_patterns.found
             THEN Min(20, results.sequential_patterns.count * 8) ELSE 0)
          + (IF results.repetition_patterns.found
             THEN Min(15, results.repetition_patterns.count * 7) ELSE 0)
          + (IF results.leet_speak.found
             THEN Min(10, results.leet_speak.leet_score * 3) ELSE 0)
          + (IF results.date_patterns.found
             THEN Min(15, results.date_patterns.count * 10) ELSE 0)
          + (IF results.common_words.found
             THEN Min(20, results.common_words.count * 15) ELSE 0)
    IN  Min(100, score)

\* the warnings with the common words tested before the dates
_generate_warnings_reordered(results) ==
    LET warnings ==
          (IF results.keyboard_patterns.found
           THEN <<"Contains keyboard pattern sequences">> ELSE <<>>)
          \o (IF results.sequential_patterns.found
              THEN <<"Contains sequential characters (abc, 123)">> ELSE <<>>)
          \o (IF results.repetition_patterns.found
              THEN <<"Contains repeated characters or sequences">> ELSE <<>>)
          \o (IF results.leet_speak.found
              THEN <<"Uses predictable leetspeak substitutions">> ELSE <<>>)
          \o (IF results.common_words.found
              THEN <<"Based on common password words">> ELSE <<>>)
          \o (IF results.date_patterns.found
              THEN <<"Contains date or year information">> ELSE <<>>)
    IN  IF "follows_common_structure" \notin DOMAIN results.character_patterns
        THEN [warnings |-> warnings, raised |-> "KeyError"]
        ELSE [warnings |-> warnings
                           \o (IF results.character_patterns.follows_common_structure
                               THEN <<"Follows predictable password structure">>
                               ELSE <<>>),
              raised |-> ""]

\* [warnings, raised]: reading ['follows_common_structure'] of the dict {}
\* raises KeyError. The warning texts are kept without their leading sign.
_generate_warnings(results) ==
    LET warnings ==
          (IF results.keyboard_patterns.found
           THEN <<"Contains keyboard pattern sequences">> ELSE <<>>)
          \o (IF results.sequential_patterns.found
              THEN <<"Contains sequential characters (abc, 123)">> ELSE <<>>)
          \o (IF results.repetition_patterns.found
              THEN <<"Contains repeated characters or sequences">> ELSE <<>>)
          \o (IF results.leet_speak.found
              THEN <<"Uses predictable leetspeak substitutions">> ELSE <<>>)
          \o (IF results.date_patterns.found
              THEN <<"Contains date or year information">> ELSE <<>>)
          \o (IF results.common_words.found
              THEN <<"Based on common password words">> ELSE <<>>)
    IN  IF "follows_common_structure" \notin DOMAIN results.character_patterns
        THEN [warnings |-> warnings, raised |-> "KeyError"]
        ELSE [warnings |-> warnings
                           \o (IF results.character_patterns.follows_common_structure
                               THEN <<"Follows predictable password structure">>
                               ELSE <<>>),
              raised |-> ""]

(***************************************************************************)
(* detect_all_patterns, in the three blocks that touch the shared field    *)
(* self.detected_patterns: the reset (line 79), the seven detectors with   *)
(* their appends (lines 81-92), and the score, the read of                 *)
(* len(self.detected_patterns) and the warnings (lines 95-100).            *)
(***************************************************************************)
\* the detectors in the order the dict literal evaluates them
DetectorRuns(password, current_year) ==
    << detect_keyboard_patterns(password),
       detect_sequential_patterns(password),
       detect_repetition_patterns(password),
       detect_leet_speak(password),
       detect_date_patterns(password, current_year),
       detect_common_words(password),
       analyze_character_patterns(password) >>

\* lines 81-92: [results, log, raised]; a detector that raises ends the call
\* after its own appends
RunDetectors(password, current_year) ==
    LET runs == DetectorRuns(password, current_year)
        raising == {k \in 1..Len(runs) : runs[k].raised # ""}
        last == IF raising = {} THEN Len(runs)
                ELSE CHOOSE k \in raising : \A m \in raising : k <= m
    IN  [results |-> [keyboard_patterns |-> runs[1].result,
                      sequential_patterns |-> runs[2].result,
                      repetition_patterns |-> runs[3].result,
                      leet_speak |-> runs[4].result,
                      date_patterns |-> runs[5].result,
                      common_words |-> runs[6].result,
                      character_patterns |-> runs[7].result,
                      overall_score |-> 0,
                      pattern_count |-> 0,
                      warnings |-> <<>>],
         log |-> Flatten([k \in 1..last |-> runs[k].log]),
         raised |-> IF raising = {} THEN "" ELSE runs[last].raised]

\* lines 95-100, given the length of self.detected_patterns read at line 97:
\* the report returned, or the exception raised
FinishReport(results, detected_len) ==
    LET pattern_score == _calculate_pattern_score(results)
        warn == _generate_warnings(results)
    IN  IF warn.raised # "" THEN [raised |-> warn.raised]
        ELSE [results EXCEPT !.overall_score = pattern_score,
                             !.pattern_count = detected_len,
                             !.warnings = warn.warnings]

\* the appends of lines 81-92 without the reset of line 79
DetectedAfterNoReset(detected_before, run) ==
    detected_before \o run.log

\* line 79, then the appends of lines 81-92: self.detected_patterns once the
\* detectors have run, given what it held when the call began
DetectedAfter(detected_before, run) ==
    <<>> \o run.log

\* one whole call on its own, given what self.detected_patterns held when it
\* began and what lines 81-92 did: [ret, detected_patterns]
DetectCall(detected_before, run) ==
    LET detected == DetectedAfter(detected_before, run)
    IN  [ret |-> IF run.raised # "" THEN [raised |-> run.raised]
                 ELSE FinishReport(run.results, Len(detected)),
         detected_patterns |-> detected]

\* a call on a detector just constructed
detect_all_patterns(password, current_year) ==
    DetectCall(<<>>, RunDetectors(password, current_year))

(***************************************************************************)
(* EntropyCalculator                                                       *)
(***************************************************************************)
LOWERCASE_POOL == 26

UPPERCASE_POOL == 26

DIGITS_POOL == 10

SPECIAL_POOL == 32

\* math.log2(n) for n in 1..160 (a pool size, a length or a count of a
\* character), in millionths of a bit
Log2Micro ==
    << 0, 1000000, 1584963, 2000000, 2321928, 2584963, 2807355, 3000000,
       3169925, 3321928, 3459432, 3584963, 3700440, 3807355, 3906891, 4000000,
       4087463, 4169925, 4247928, 4321928, 4392317, 4459432, 4523562, 4584963,
       4643856, 4700440, 4754888, 4807355, 4857981, 4906891, 4954196, 5000000,
       5044394, 5087463, 5129283, 5169925, 5209453, 5247928, 5285402, 5321928,
       5357552, 5392317, 5426265, 5459432, 5491853, 5523562, 5554589, 5584963,
       5614710, 5643856, 5672425, 5700440, 5727920, 5754888, 5781360, 5807355,
       5832890, 5857981, 5882643, 5906891, 5930737, 5954196, 5977280, 6000000,
       6022368, 6044394, 6066089, 6087463, 6108524, 6129283, 6149747, 6169925,
       6189825, 6209453, 6228819, 6247928, 6266787, 6285402, 6303781, 6321928,
       6339850, 6357552, 6375039, 6392317, 6409391, 6426265, 6442943, 6459432,
       6475733, 6491853, 6507795, 6523562, 6539159, 6554589, 6569856, 6584963,
       6599913, 6614710, 6629357, 6643856, 6658211, 6672425, 6686501, 6700440,
       6714246, 6727920, 6741467, 6754888, 6768184, 6781360, 6794416, 6807355,
       6820179, 6832890, 6845490, 6857981, 6870365, 6882643, 6894818, 6906891,
       6918863, 6930737, 6942515, 6954196, 6965784, 6977280, 6988685, 7000000,
       7011227, 7022368, 7033423, 7044394, 7055282, 7066089, 7076816, 7087463,
       7098032, 7108524, 7118941, 7129283, 7139551, 7149747, 7159871, 7169925,
       7179909, 7189825, 7199672, 7209453, 7219169, 7228819, 7238405, 7247928,
       7257388, 7266787, 7276124, 7285402, 7294621, 7303781, 7312883, 7321928 >>

\* round(num / den) to the nearest integer, halves to the even one (Python's
\* round), for num >= 0 and den > 0
RoundHalfEven(num, den) ==
    LET q == num \div den
        r == num % den
    IN  IF 2 * r < den THEN q
        ELSE IF 2 * r > den THEN q + 1
        ELSE IF q % 2 = 0 THEN q ELSE q + 1

\* an unbounded int as base-10000 limbs, least significant first
RECURSIVE BigFromInt(_)
BigFromInt(n) ==
    IF n < 10000 THEN <<n>> ELSE <<n % 10000>> \o BigFromInt(n \div 10000)

\* a * k + carry for an unbounded a and 0 <= k, carry < 10000
RECURSIVE BigMulSmall(_, _, _)
BigMulSmall(a, k, carry) ==
    IF a = <<>> THEN (IF carry = 0 THEN <<>> ELSE <<carry>>)
    ELSE LET t == Head(a) * k + carry
         IN  <<t % 10000>> \o BigMulSmall(Tail(a), k, t \div 10000)

\* base ** exponent kept in four limbs, as an integer of a fixed width would
BigPowFixedWidth(base, exponent) ==
    LET F[e \in 0..exponent] ==
          IF e = 0 THEN <<1>>
          ELSE LET b == BigMulSmall(F[e - 1], base, 0)
               IN  SubSeq(b, 1, Min(Len(b), 4))
    IN  F[exponent]

\* base ** exponent, exact
RECURSIVE BigPow(_, _)
BigPow(base, exponent) ==
    IF exponent = 0 THEN <<1>>
    ELSE BigMulSmall(BigPow(base, exponent - 1), base, 0)

\* Counter(password).values(), as a function from the characters
Frequencies(password) ==
    [c \in {password[k] : k \in 1..Len(password)} |->
        Cardinality({k \in 1..Len(password) : password[k] = c})]

\* the sum of f over its domain
RECURSIVE SumOver(_, _)
SumOver(f, dom) ==
    IF dom = {} THEN 0
    ELSE LET c == CHOOSE x \in dom : TRUE
         IN  f[c] + SumOver(f, dom \ {c})

\* in hundredths of a bit: -sum p*log2(p) with p = count/length, that is
\* sum count * (log2(length) - log2(count)) / length
calculate_shannon_entropy(password) ==
    IF password = <<>> THEN 0
    ELSE LET length == Len(password)
             frequencies == Frequencies(password)
             terms == [c \in DOMAIN frequencies |->
                         frequencies[c] * (Log2Micro[length] - Log2Micro[frequencies[c]])]
         IN  RoundHalfEven(SumOver(terms, DOMAIN terms), length * 10000)

_calculate_pool_size(password) ==
    (IF \E k \in 1..Len(password) : IsAsciiLower(password[k])
     THEN LOWERCASE_POOL ELSE 0)
    + (IF \E k \in 1..Len(password) : IsAsciiUpper(password[k])
       THEN UPPERCASE_POOL ELSE 0)
    + (IF \E k \in 1..Len(password) : IsDecimal(password[k])
       THEN DIGITS_POOL ELSE 0)
    + (IF \E k \in 1..Len(password) : IsPoolSpecial(password[k])
       THEN SPECIAL_POOL ELSE 0)

\* calculate_password_entropy without the guard of lines 89-94
calculate_password_entropy_unguarded(password) ==
    LET pool_size == _calculate_pool_size(password)
        length == Len(password)
    IN  IF pool_size = 0 THEN [raised |-> "ValueError"]
        ELSE [pool_size |-> pool_size,
              entropy_bits |-> RoundHalfEven(length * Log2Micro[pool_size], 10000),
              combinations |-> BigPow(pool_size, length),
              length |-> length]

\* the dict returned, or [raised |-> "ValueError"] where math.log2 is given 0
calculate_password_entropy(password) ==
    IF password = <<>>
    THEN [pool_size |-> 0, entropy_bits |-> 0, combinations |-> <<0>>]
    ELSE LET pool_size == _calculate_pool_size(password)
             length == Len(password)
         IN  IF pool_size = 0 THEN [raised |-> "ValueError"]
             ELSE [pool_size |-> pool_size,
                   entropy_bits |-> RoundHalfEven(length * Log2Micro[pool_size], 10000),
                   combinations |-> BigPow(pool_size, length),
                   length |-> length]

calculate_ideal_entropy(length, use_all_pools) ==
    LET pool_size == IF use_all_pools
                     THEN LOWERCASE_POOL + UPPERCASE_POOL + DIGITS_POOL + SPECIAL_POOL
                     ELSE LOWERCASE_POOL + UPPERCASE_POOL
    IN  RoundHalfEven(length * Log2Micro[pool_size], 10000)

\* the bands with the upper bound of each included instead of the lower
get_entropy_strength_upper_inclusive(entropy_bits) ==
    IF entropy_bits <= 2800 THEN "Very Weak"
    ELSE IF entropy_bits <= 3600 THEN "Weak"
    ELSE IF entropy_bits <= 6000 THEN "Reasonable"
    ELSE IF entropy_bits <= 12800 THEN "Strong"
    ELSE "Very Strong"

\* entropy_bits in hundredths of a bit
get_entropy_strength(entropy_bits) ==
    IF entropy_bits < 2800 THEN "Very Weak"
    ELSE IF entropy_bits < 3600 THEN "Weak"
    ELSE IF entropy_bits < 6000 THEN "Reasonable"
    ELSE IF entropy_bits < 12800 THEN "Strong"
    ELSE "Very Strong"

\* log2, in millionths of a bit, of the numbers of seconds and of guesses the
\* code names: 1, 60, 3600, 86400, 31536000 and 31536000 times 100, 1000,
\* 1_000_000 and 1_000_000_000; and of 1_000_000_000 guesses per second
LgSecond == 0

LgMinute == 5906891

LgHour == 11813781

LgDay == 16398744

LgYear == 24910496

LgHundredYears == 31554353

LgThousandYears == 34876281

LgMillionYears == 44842065

LgBillionYears == 54807849

LgGuessesPerSecond == 29897353

\* log2 of 1000, 1_000_000 and 1_000_000_000 (years/1000 and so on)
LgThousand == 9965784

LgMillion == 19931569

LgBillion == 29897353

\* 0.0 seconds: below every number the code compares with
LgZero == -2000000000

\* 2 ** x raises OverflowError from 1024 bits on (hundredths of a bit)
FloatMaxExponent == 102400

\* the chain with <= in the place of every <
_format_time_upper_inclusive(seconds) ==
    IF seconds <= LgSecond THEN [unit |-> "Instant"]
    ELSE IF seconds <= LgMinute
    THEN [unit |-> "seconds", decimals |-> 1, value |-> seconds]
    ELSE IF seconds <= LgHour
    THEN [unit |-> "minutes", decimals |-> 1, value |-> seconds - LgMinute]
    ELSE IF seconds <= LgDay
    THEN [unit |-> "hours", decimals |-> 1, value |-> seconds - LgHour]
    ELSE IF seconds <= LgYear
    THEN [unit |-> "days", decimals |-> 1, value |-> seconds - LgDay]
    ELSE IF seconds <= LgHundredYears
    THEN [unit |-> "years", decimals |-> 1, value |-> seconds - LgYear]
    ELSE IF seconds <= LgThousandYears
    THEN [unit |-> "years", decimals |-> 0, value |-> seconds - LgYear]
    ELSE IF seconds <= LgMillionYears
    THEN [unit |-> "thousand years", decimals |-> 1,
          value |-> seconds - LgYear - LgThousand]
    ELSE IF seconds <= LgBillionYears
    THEN [unit |-> "million years", decimals |-> 1,
          value |-> seconds - LgYear - LgMillion]
    ELSE [unit |-> "billion years", decimals |-> 1,
          value |-> seconds - LgYear - LgBillion]

\* seconds as log2 in millionths: [unit, decimals, value], where value is
\* the number the f-string formats with that many decimals
_format_time(seconds) ==
    IF seconds < LgSecond THEN [unit |-> "Instant"]
    ELSE IF seconds < LgMinute
    THEN [unit |-> "seconds", decimals |-> 1, value |-> seconds]
    ELSE IF seconds < LgHour
    THEN [unit |-> "minutes", decimals |-> 1, value |-> seconds - LgMinute]
    ELSE IF seconds < LgDay
    THEN [unit |-> "hours", decimals |-> 1, value |-> seconds - LgHour]
    ELSE IF seconds < LgYear
    THEN [unit |-> "days", decimals |-> 1, value |-> seconds - LgDay]
    ELSE IF seconds < LgHundredYears
    THEN [unit |-> "years", decimals |-> 1, value |-> seconds - LgYear]
    ELSE IF seconds < LgThousandYears
    THEN [unit |-> "years", decimals |-> 0, value |-> seconds - LgYear]
    ELSE IF seconds < LgMillionYears
    THEN [unit |-> "thousand years", decimals |-> 1,
          value |-> seconds - LgYear - LgThousand]
    ELSE IF seconds < LgBillionYears
    THEN [unit |-> "million years", decimals |-> 1,
          value |-> seconds - LgYear - LgMillion]
    ELSE [unit |-> "billion years", decimals |-> 1,
          value |-> seconds - LgYear - LgBillion]

\* estimate_crack_time with 2 ** x computed in single precision, which
\* overflows from 128 bits on
estimate_crack_time_single_precision(entropy_bits, guesses_per_second) ==
    IF entropy_bits >= 12800 THEN [raised |-> "OverflowError"]
    ELSE LET total_combinations == entropy_bits * 10000
             average_seconds == (total_combinations - 1000000) - guesses_per_second
             worst_seconds == total_combinations - guesses_per_second
         IN  [average_case |-> _format_time(average_seconds),
              worst_case |-> _format_time(worst_seconds),
              combinations |-> total_combinations,
              attack_speed |-> guesses_per_second]

\* entropy_bits in hundredths of a bit, guesses_per_second as log2 in
\* millionths: the dict returned, or [raised |-> "OverflowError"]. The two
\* display strings are kept as the numbers they format.
estimate_crack_time(entropy_bits, guesses_per_second) ==
    IF entropy_bits >= FloatMaxExponent THEN [raised |-> "OverflowError"]
    ELSE LET total_combinations == entropy_bits * 10000
             average_seconds == (total_combinations - 1000000) - guesses_per_second
             worst_seconds == total_combinations - guesses_per_second
         IN  [average_case |-> _format_time(average_seconds),
              worst_case |-> _format_time(worst_seconds),
              combinations |-> total_combinations,
              attack_speed |-> guesses_per_second]

\* [ret, history]: the report returned (or the exception raised) and the
\* entries the call appends to self.calculation_history
analyze_complete(password) ==
    LET shannon == calculate_shannon_entropy(password)
        password_entropy == calculate_password_entropy(password)
    IN  IF "raised" \in DOMAIN password_entropy
        THEN [ret |-> password_entropy, history |-> <<>>]
        ELSE
          LET strength == get_entropy_strength(password_entropy.entropy_bits)
              crack_time == estimate_crack_time(password_entropy.entropy_bits,
                                                LgGuessesPerSecond)
              ideal == calculate_ideal_entropy(Len(password), TRUE)
              \* round(efficiency, 1), in tenths of a percent
              efficiency == IF ideal > 0
                            THEN RoundHalfEven(password_entropy.entropy_bits * 1000, ideal)
                            ELSE 0
          IN  IF "raised" \in DOMAIN crack_time
              THEN [ret |-> crack_time, history |-> <<>>]
              ELSE [ret |-> [shannon_entropy |-> shannon,
                             password_entropy |-> password_entropy.entropy_bits,
                             ideal_entropy |-> ideal,
                             efficiency_percentage |-> efficiency,
                             strength_rating |-> strength,
                             pool_size |-> password_entropy.pool_size,
                             length |-> Len(password),
                             crack_time_estimates |-> crack_time,
                             total_combinations |-> password_entropy.combinations],
                    history |-> << [password_length |-> Len(password),
                                    entropy |-> password_entropy.entropy_bits,
                                    strength |-> strength] >>]

\* pwd[:3] + '*' * (len(pwd) - 3); a negative repeat count gives ''
PasswordPreview(pwd) ==
    Slice(pwd, 0, 3) \o [k \in 1..Max(0, Len(pwd) - 3) |-> 42]

\* list.sort(key=..., reverse=True) is stable: an element goes after every
\* element whose key is not smaller than its own
RECURSIVE InsertByEntropy(_, _)
InsertByEntropy(sorted, x) ==
    IF sorted = <<>> THEN <<x>>
    ELSE IF Head(sorted).password_entropy >= x.password_entropy
    THEN <<Head(sorted)>> \o InsertByEntropy(Tail(sorted), x)
    ELSE <<x>> \o sorted

\* the list as the loop built it, line 317 left out
ResultsUnsorted(results) ==
    results

RECURSIVE SortByEntropyDescending(_)
SortByEntropyDescending(results) ==
    IF results = <<>> THEN <<>>
    ELSE InsertByEntropy(
           SortByEntropyDescending(SubSeq(results, 1, Len(results) - 1)),
           results[Len(results)])

\* compare_passwords, given the outcome of each analyze_complete call of its
\* loop: [ret, history]; a call that raises ends the loop
CompareCall(pwds, runs) ==
    LET raising == {k \in 1..Len(runs) : "raised" \in DOMAIN runs[k].ret}
        last == IF raising = {} THEN Len(runs)
                ELSE CHOOSE k \in raising : \A m \in raising : k <= m
        history == Flatten([k \in 1..last |-> runs[k].history])
        AddPreview(k) ==
            [f \in DOMAIN runs[k].ret \cup {"password_preview"} |->
                IF f = "password_preview" THEN PasswordPreview(pwds[k])
                ELSE runs[k].ret[f]]
    IN  IF raising # {} THEN [ret |-> runs[last].ret, history |-> history]
        ELSE [ret |-> SortByEntropyDescending([k \in 1..Len(runs) |-> AddPreview(k)]),
              history |-> history]

compare_passwords(pwds) == CompareCall(pwds, MapSeq(pwds, analyze_complete))

(***************************************************************************)
(* analyzer.py and the /analyze handler of app.py                          *)
(***************************************************************************)
\* re [!@#$%^&*(),.?":{}|<>]
IsListedSpecial(c) ==
    c \in {33, 64, 35, 36, 37, 94, 38, 42, 40, 41, 44, 46, 63, 34, 58, 123, 125,
           124, 60, 62}

\* the score with length > 8 and length > 12 in the place of >= 8 and >= 12
CriteriaScoreStrictLength(length, has_upper, has_lower, has_digit, has_special) ==
    (IF length > 8 THEN 1 ELSE 0) + (IF length > 12 THEN 1 ELSE 0)
    + (IF has_upper THEN 1 ELSE 0) + (IF has_lower THEN 1 ELSE 0)
    + (IF has_digit THEN 1 ELSE 0) + (IF has_special THEN 1 ELSE 0)

\* lines 17-29
CriteriaScore(length, has_upper, has_lower, has_digit, has_special) ==
    (IF length >= 8 THEN 1 ELSE 0) + (IF length >= 12 THEN 1 ELSE 0)
    + (IF has_upper THEN 1 ELSE 0) + (IF has_lower THEN 1 ELSE 0)
    + (IF has_digit THEN 1 ELSE 0) + (IF has_special THEN 1 ELSE 0)

\* the dict returned, given what the library call zxcvbn(password) gave:
\* [score, crack_time]
analyze_password(password, zxcvbn_result) ==
    LET length == Len(password)
        has_upper == \E k \in 1..length : IsAsciiUpper(password[k])
        has_lower == \E k \in 1..length : IsAsciiLower(password[k])
        has_digit == \E k \in 1..length : IsDecimal(password[k])
        has_special == \E k \in 1..length : IsListedSpecial(password[k])
    IN  [length |-> length,
         has_uppercase |-> has_upper,
         has_lowercase |-> has_lower,
         has_digits |-> has_digit,
         has_special |-> has_special,
         score |-> CriteriaScore(length, has_upper, has_lower, has_digit, has_special),
         entropy_score |-> zxcvbn_result.score,
         crack_time |-> zxcvbn_result.crack_time]

get_strength_label(score) ==
    IF score <= 2 THEN "Weak"
    ELSE IF score <= 4 THEN "Medium"
    ELSE "Strong"

\* the loop of lines 75-77 over the lines of the response, each split at
\* ':': a line of [fields, suffix, numeric, count], where suffix tells
\* whether its first field is the tail of the password's hash, and numeric
\* whether int() accepts its second field, count being what int() gives.
\* Unpacking a line that has not two fields raises ValueError, and so does
\* int() of a count that is no number.
RECURSIVE ScanHashes(_)
ScanHashes(lines) ==
    IF lines = <<>> THEN [is_pwned |-> "False", count |-> 0]
    ELSE LET line == Head(lines)
         IN  IF line.fields # 2 THEN [raised |-> "ValueError"]
             ELSE IF line.suffix = "tail"
             THEN IF line.numeric
                  THEN [is_pwned |-> "True", count |-> line.count]
                  ELSE [raised |-> "ValueError"]
             ELSE ScanHashes(Tail(lines))

\* the pair returned, or the exception raised, given what requests.get did:
\* [failed] (it raised a RequestException) or [failed, status_code, lines].
\* The SHA-1 digest of the password is not computed: the lines tell which of
\* them carry its tail.
check_pwned_password(password, response) ==
    IF response.failed
    THEN [is_pwned |-> "None", message |-> "Error connecting to breach database"]
    ELSE IF response.status_code # 200
    THEN [is_pwned |-> "None", message |-> "Could not check breach database"]
    ELSE ScanHashes(response.lines)

\* the /analyze handler: the status and the JSON body of its answer, or the
\* exception that leaves it
analyze(password, zxcvbn_result, response) ==
    IF password = <<>>
    THEN [status |-> 400, json |-> [error |-> "No password provided"]]
    ELSE LET results == analyze_password(password, zxcvbn_result)
             strength == get_strength_label(results.score)
             pwned == check_pwned_password(password, response)
         IN  IF "raised" \in DOMAIN pwned THEN pwned
             ELSE [status |-> 200,
                   json |-> [length |-> results.length,
                             strength |-> strength,
                             crack_time |-> results.crack_time,
                             has_uppercase |-> results.has_uppercase,
                             has_lowercase |-> results.has_lowercase,
                             has_digits |-> results.has_digits,
                             has_special |-> results.has_special,
                             is_breached |-> pwned.is_pwned,
                             breach_count |-> IF pwned.is_pwned = "True"
                                              THEN pwned.count ELSE 0]]

(***************************************************************************)
(* The inputs of the model                                                 *)
(***************************************************************************)
\* the most chunks a password is made of
MaxChunks == 2

\* the most passwords in the caller's list
MaxList == 3

\* the most calls of one session
MaxCalls == 2

\* the entropies (hundredths of a bit) get_entropy_strength is asked about
MaxEntropy == 13000

\* the grid of the numbers of seconds _format_time is asked about
MaxSecondsSteps == 120

SecondsStep == 500000

\* 'qwerty', 'abc', '123', 'aaa', '1990', '0101', 'user', 'Ab', 'x!', '@5',
\* 'p', superscript two, '2036', 'P@ssw0rd'
Chunks ==
    << <<113,119,101,114,116,121>>, <<97,98,99>>, <<49,50,51>>, <<97,97,97>>,
       <<49,57,57,48>>, <<48,49,48,49>>, <<117,115,101,114>>, <<65,98>>,
       <<120,33>>, <<64,53>>, <<112>>, <<178>>, <<50,48,51,54>>,
       <<80,64,115,115,119,48,114,100>> >>

\* the passwords made of at most n chunks
RECURSIVE ChunkStrings(_)
ChunkStrings(n) ==
    IF n = 0 THEN { <<>> }
    ELSE LET shorter == ChunkStrings(n - 1)
         IN  shorter \cup {q \o Chunks[k] : q \in shorter, k \in 1..Len(Chunks)}

RichPasswords == ChunkStrings(MaxChunks)

\* '', 'abc', 'aaa' (the entropy of 'abc'), 'x!'
ListPool == { <<>>, <<97,98,99>>, <<97,97,97>>, <<120,33>> }

AllPasswords == RichPasswords \cup ListPool

\* what the caller holds: one password, or a list of short ones
SessionLists ==
    { <<q>> : q \in RichPasswords }
    \cup UNION { [1..k -> ListPool] : k \in 0..MaxList }

\* the longest password given to detect_repetition_patterns alone
MaxRepetitionLen == 8

\* the strings of at most n characters of an alphabet
StringsOver(alphabet, n) == UNION { [1..k -> alphabet] : k \in 0..n }

\* every string of 'a' and 'b'
RepetitionPasswords == StringsOver({97, 98}, MaxRepetitionLen)

\* the longest password given to detect_date_patterns alone
MaxDateLen == 6

\* every string of '0', '1', '2', '9' and 'b'
DatePasswords == StringsOver({48, 49, 50, 57, 98}, MaxDateLen)

\* the longest password given to detect_sequential_patterns alone
MaxSequentialLen == 5

\* every string of 'a' to 'e' and '1' to '3'
SequentialPasswords ==
    StringsOver({97, 98, 99, 100, 101, 49, 50, 51}, MaxSequentialLen)

\* the longest password given to analyze_character_patterns alone
MaxStructureLen == 5

\* every string of 'A', 'a', '1' and '!'
StructurePasswords == StringsOver({65, 97, 49, 33}, MaxStructureLen)

\* the most pieces of a password given to analyze_password
MaxPieces == 3

\* 'A', 'a', '1', '!', '-', 'pass', 'P@ssw0rd'
Pieces ==
    { <<65>>, <<97>>, <<49>>, <<33>>, <<45>>, <<112,97,115,115>>,
      <<80,64,115,115,119,48,114,100>> }

\* the passwords made of at most n pieces
RECURSIVE PieceStrings(_)
PieceStrings(n) ==
    IF n = 0 THEN { <<>> }
    ELSE LET shorter == PieceStrings(n - 1)
         IN  shorter \cup {q \o piece : q \in shorter, piece \in Pieces}

AnalyzerPasswords == PieceStrings(MaxPieces)

\* what zxcvbn(password) may give: its 0-4 score and its display string
ZxcvbnResults ==
    { [score |-> 0, crack_time |-> "less than a second"],
      [score |-> 4, crack_time |-> "centuries"] }

\* the most lines of a response of the breach service
MaxLines == 2

\* the lines of a response: 'TAIL:3', 'OTHER:7', a line without ':' and
\* 'TAIL:x'
HashLines ==
    { [fields |-> 2, suffix |-> "tail", numeric |-> TRUE, count |-> 3],
      [fields |-> 2, suffix |-> "other", numeric |-> TRUE, count |-> 7],
      [fields |-> 1, suffix |-> "other", numeric |-> FALSE, count |-> 0],
      [fields |-> 2, suffix |-> "tail", numeric |-> FALSE, count |-> 0] }

\* what requests.get may do: raise a RequestException, or give a response
\* of status 200 or 503 with some lines
Responses ==
    { [failed |-> TRUE, status_code |-> 0, lines |-> <<>>] }
    \cup { [failed |-> FALSE, status_code |-> status, lines |-> lines] :
             status \in {200, 503}, lines \in StringsOver(HashLines, MaxLines) }

\* the longest password whose crack time is estimated
MaxCrackLen == 128

\* 'a', 'A', '1', '!': one character of each class of the 94-character pool
ClassCharacters == <<97, 65, 49, 33>>

\* for every length and every choice of classes, the password that repeats
\* the characters of the chosen classes in turn
CrackPasswords ==
    { [k \in 1..n |-> classes[((k - 1) % Len(classes)) + 1]] :
        n \in 0..MaxCrackLen,
        classes \in { SubSeq(ClassCharacters, lo, hi) :
                        lo \in 1..4, hi \in 1..4 } \ { <<>> } }

\* datetime.now().year, the same for the whole session
CurrentYears == {2025, 2026}

EntropyProbes == 0..MaxEntropy

\* 0.0, every breakpoint with its two neighbours, 0.5 s, 90 s, and a grid
SecondsProbes ==
    {LgZero, -1000000, 6491853}
    \cup {b + d : b \in {LgSecond, LgMinute, LgHour, LgDay, LgYear, LgHundredYears,
                         LgThousandYears, LgMillionYears, LgBillionYears},
                  d \in {-1, 0, 1}}
    \cup {k * SecondsStep : k \in (-MaxSecondsSteps)..MaxSecondsSteps}

\* What the calls compute from each of the caller's passwords alone: the
\* run of the detectors, and the outcomes of analyze_complete and of
\* calculate_password_entropy
Outcomes(pwds, year) ==
    [i \in 1..Len(pwds) |->
        [run |-> RunDetectors(pwds[i], year),
         analyze |-> analyze_complete(pwds[i]),
         entropy |-> calculate_password_entropy(pwds[i])]]

(***************************************************************************)
(* The state                                                               *)
(***************************************************************************)
VARIABLES
    passwords,            \* the caller's passwords
    current_year,         \* what datetime.now().year gives
    detected_patterns,    \* PatternDetector.detected_patterns
    calculation_history,  \* EntropyCalculator.calculation_history
    call,                 \* the last call that ended: [op, arg, ret]
    repeat,               \* [same, ret]: whether the call before the last was
                          \* the same call, and what it then gave
    ncalls,               \* the calls made so far
    input,                \* the number a pure function is asked about, or
                          \* what the collaborators of a call gave it
    outcomes,             \* Outcomes(passwords, current_year), evaluated once
    threads               \* the concurrent calls of detect_all_patterns

vars == <<passwords, current_year, detected_patterns, calculation_history,
          call, repeat, ncalls, input, outcomes, threads>>

Threads == {1, 2}

NoRet == <<>>

NoCall == [op |-> "none", arg |-> 0, ret |-> NoRet]

NoRepeat == [same |-> FALSE, ret |-> NoRet]

IdleThread == [pc |-> "idle", arg |-> 0, results |-> NoRet, ret |-> NoRet]

\* PatternDetector.__init__ and EntropyCalculator.__init__, and no call yet
InitObjects ==
    /\ detected_patterns = <<>>
    /\ calculation_history = <<>>
    /\ call = NoCall
    /\ repeat = NoRepeat
    /\ ncalls = 0
    /\ threads = [t \in Threads |-> IdleThread]

\* a call ends: what it was and gave is kept for the properties
Ended(op, arg, ret) ==
    /\ call' = [op |-> op, arg |-> arg, ret |-> ret]
    /\ repeat' = IF call.op = op /\ call.arg = arg
                 THEN [same |-> TRUE, ret |-> call.ret]
                 ELSE NoRepeat
    /\ ncalls' = ncalls + 1

(***************************************************************************)
(* One caller: the calls run one after the other                           *)
(***************************************************************************)
Init ==
    /\ passwords \in SessionLists
    /\ current_year \in CurrentYears
    /\ input = 0
    /\ outcomes = Outcomes(passwords, current_year)
    /\ InitObjects

DetectAllPatterns(i) ==
    /\ ncalls < MaxCalls
    /\ LET r == DetectCall(detected_patterns, outcomes[i].run)
       IN  /\ detected_patterns' = r.detected_patterns
           /\ Ended("detect_all_patterns", i, r.ret)
    /\ UNCHANGED <<passwords, current_year, calculation_history, input, outcomes, threads>>

AnalyzeComplete(i) ==
    /\ ncalls < MaxCalls
    /\ LET r == outcomes[i].analyze
       IN  /\ calculation_history' = calculation_history \o r.history
           /\ Ended("analyze_complete", i, r.ret)
    /\ UNCHANGED <<passwords, current_year, detected_patterns, input, outcomes, threads>>

CalculatePasswordEntropy(i) ==
    /\ ncalls < MaxCalls
    /\ Ended("calculate_password_entropy", i, outcomes[i].entropy)
    /\ UNCHANGED <<passwords, current_year, detected_patterns, calculation_history,
                   input, outcomes, threads>>

ComparePasswords ==
    /\ ncalls < MaxCalls
    /\ LET r == CompareCall(passwords, [k \in 1..Len(passwords) |-> outcomes[k].analyze])
       IN  /\ calculation_history' = calculation_history \o r.history
           /\ Ended("compare_passwords", 0, r.ret)
    /\ UNCHANGED <<passwords, current_year, detected_patterns, input, outcomes, threads>>

Next ==
    \/ \E i \in 1..Len(passwords) : DetectAllPatterns(i)
    \/ \E i \in 1..Len(passwords) : AnalyzeComplete(i)
    \/ \E i \in 1..Len(passwords) : CalculatePasswordEntropy(i)
    \/ ComparePasswords

Spec == Init /\ [][Next]_vars

(***************************************************************************)
(* Two callers of one PatternDetector: the blocks of their calls           *)
(* interleave                                                              *)
(***************************************************************************)
\* line 79
ThreadReset(t, i) ==
    /\ threads[t].pc = "idle"
    /\ detected_patterns' = <<>>
    /\ threads' = [threads EXCEPT ![t] = [@ EXCEPT !.pc = "reset", !.arg = i]]
    /\ UNCHANGED <<passwords, current_year, calculation_history, call, repeat,
                   ncalls, input, outcomes>>

\* lines 81-92
ThreadDetect(t) ==
    /\ threads[t].pc = "reset"
    /\ LET run == outcomes[threads[t].arg].run
       IN  /\ detected_patterns' = detected_patterns \o run.log
           /\ threads' = [threads EXCEPT ![t] =
                 IF run.raised # ""
                 THEN [@ EXCEPT !.pc = "done", !.ret = [raised |-> run.raised]]
                 ELSE [@ EXCEPT !.pc = "detected", !.results = run.results]]
    /\ UNCHANGED <<passwords, current_year, calculation_history, call, repeat,
                   ncalls, input, outcomes>>

\* lines 95-100
ThreadFinish(t) ==
    /\ threads[t].pc = "detected"
    /\ threads' = [threads EXCEPT ![t] =
          [@ EXCEPT !.pc = "done",
                    !.ret = FinishReport(threads[t].results, Len(detected_patterns))]]
    /\ UNCHANGED <<passwords, current_year, detected_patterns, calculation_history,
                   call, repeat, ncalls, input, outcomes>>

NextConcurrent ==
    \/ \E t \in Threads : \E i \in 1..Len(passwords) : ThreadReset(t, i)
    \/ \E t \in Threads : ThreadDetect(t)
    \/ \E t \in Threads : ThreadFinish(t)

SpecConcurrent == Init /\ [][NextConcurrent]_vars

(***************************************************************************)
(* The pure functions, asked about one number                              *)
(***************************************************************************)
InitStrength ==
    /\ passwords = <<>>
    /\ current_year \in CurrentYears
    /\ input \in EntropyProbes
    /\ outcomes = <<>>
    /\ InitObjects

GetEntropyStrength ==
    /\ ncalls = 0
    /\ Ended("get_entropy_strength", input, get_entropy_strength(input))
    /\ UNCHANGED <<passwords, current_year, detected_patterns, calculation_history,
                   input, outcomes, threads>>

SpecStrength == InitStrength /\ [][GetEntropyStrength]_vars

InitTime ==
    /\ passwords = <<>>
    /\ current_year \in CurrentYears
    /\ input \in SecondsProbes
    /\ outcomes = <<>>
    /\ InitObjects

FormatTime ==
    /\ ncalls = 0
    /\ Ended("_format_time", input, _format_time(input))
    /\ UNCHANGED <<passwords, current_year, detected_patterns, calculation_history,
                   input, outcomes, threads>>

SpecTime == InitTime /\ [][FormatTime]_vars

(***************************************************************************)
(* One detector, called alone on one password                              *)
(***************************************************************************)
\* a detector just constructed and the password it is about to be given
InitDetector(inputs) ==
    /\ passwords \in { <<q>> : q \in inputs }
    /\ current_year \in CurrentYears
    /\ input = 0
    /\ outcomes = <<>>
    /\ InitObjects

\* a detector runs: it appends to self.detected_patterns and returns its dict
DetectorCall(op, run) ==
    /\ ncalls = 0
    /\ detected_patterns' = detected_patterns \o run.log
    /\ Ended(op, 1, IF run.raised # "" THEN [raised |-> run.raised] ELSE run.result)
    /\ UNCHANGED <<passwords, current_year, calculation_history, input, outcomes,
                   threads>>

InitRepetition == InitDetector(RepetitionPasswords)

DetectRepetitionPatterns ==
    DetectorCall("detect_repetition_patterns", detect_repetition_patterns(passwords[1]))

SpecRepetition == InitRepetition /\ [][DetectRepetitionPatterns]_vars

InitDates == InitDetector(DatePasswords)

DetectDatePatterns ==
    DetectorCall("detect_date_patterns",
                 detect_date_patterns(passwords[1], current_year))

SpecDates == InitDates /\ [][DetectDatePatterns]_vars

InitSequential == InitDetector(SequentialPasswords)

DetectSequentialPatterns ==
    DetectorCall("detect_sequential_patterns", detect_sequential_patterns(passwords[1]))

SpecSequential == InitSequential /\ [][DetectSequentialPatterns]_vars

InitStructure == InitDetector(StructurePasswords)

AnalyzeCharacterPatterns ==
    DetectorCall("analyze_character_patterns", analyze_character_patterns(passwords[1]))

SpecStructure == InitStructure /\ [][AnalyzeCharacterPatterns]_vars

(***************************************************************************)
(* The crack time of one long password                                     *)
(***************************************************************************)
InitCrackTime ==
    /\ passwords \in { <<q>> : q \in CrackPasswords }
    /\ current_year \in CurrentYears
    /\ input = 0
    /\ outcomes = << [analyze |-> analyze_complete(passwords[1]),
                      entropy |-> calculate_password_entropy(passwords[1])] >>
    /\ InitObjects

\* the caller passes the entropy_bits of the dict it was just given, and
\* leaves the attack speed at its default
EstimateCrackTime ==
    /\ ncalls < MaxCalls
    /\ call.op = "calculate_password_entropy"
    /\ "raised" \notin DOMAIN call.ret
    /\ Ended("estimate_crack_time", call.ret.entropy_bits,
             estimate_crack_time(call.ret.entropy_bits, LgGuessesPerSecond))
    /\ UNCHANGED <<passwords, current_year, detected_patterns, calculation_history,
                   input, outcomes, threads>>

NextCrackTime ==
    \/ CalculatePasswordEntropy(1)
    \/ EstimateCrackTime
    \/ AnalyzeComplete(1)

SpecCrackTime == InitCrackTime /\ [][NextCrackTime]_vars

(***************************************************************************)
(* analyzer.py and the /analyze handler, called on one password            *)
(***************************************************************************)
InitApp ==
    /\ passwords \in { <<q>> : q \in AnalyzerPasswords }
    /\ current_year \in CurrentYears
    /\ input = 0
    /\ outcomes = <<>>
    /\ InitObjects

AnalyzePassword(zxcvbn_result) ==
    /\ ncalls = 0
    /\ input' = [zxcvbn |-> zxcvbn_result]
    /\ Ended("analyze_password", 1, analyze_password(passwords[1], zxcvbn_result))
    /\ UNCHANGED <<passwords, current_year, detected_patterns, calculation_history,
                   outcomes, threads>>

\* the caller passes the score of the dict it was just given
GetStrengthLabel ==
    /\ ncalls = 1
    /\ call.op = "analyze_password"
    /\ Ended("get_strength_label", call.ret.score, get_strength_label(call.ret.score))
    /\ UNCHANGED <<passwords, current_year, detected_patterns, calculation_history,
                   input, outcomes, threads>>

CheckPwnedPassword(response) ==
    /\ ncalls = 0
    /\ input' = [response |-> response]
    /\ Ended("check_pwned_password", 1, check_pwned_password(passwords[1], response))
    /\ UNCHANGED <<passwords, current_year, detected_patterns, calculation_history,
                   outcomes, threads>>

AnalyzeRequest(zxcvbn_result, response) ==
    /\ ncalls = 0
    /\ input' = [zxcvbn |-> zxcvbn_result, response |-> response]
    /\ Ended("analyze", 1, analyze(passwords[1], zxcvbn_result, response))
    /\ UNCHANGED <<passwords, current_year, detected_patterns, calculation_history,
                   outcomes, threads>>

NextApp ==
    \/ \E zxcvbn_result \in ZxcvbnResults : AnalyzePassword(zxcvbn_result)
    \/ GetStrengthLabel
    \/ \E response \in Responses : CheckPwnedPassword(response)
    \/ \E zxcvbn_result \in ZxcvbnResults : \E response \in Responses :
           AnalyzeRequest(zxcvbn_result, response)

SpecApp == InitApp /\ [][NextApp]_vars

(***************************************************************************)
(* Properties                                                              *)
(***************************************************************************)
Returned(op) == call.op = op /\ "raised" \notin DOMAIN call.ret

Arg == passwords[call.arg]

\* C1: for every password, the overall_score that detect_all_patterns
\* returns is an integer from 0 to 100.
OverallScoreInRange ==
    Returned("detect_all_patterns") => call.ret.overall_score \in 0..100

\* a report in which the keyboard patterns are held at their cap of 20
OverallScoreInRangeWitness ==
    /\ Returned("detect_all_patterns")
    /\ call.ret.keyboard_patterns.count * 10 > 20
    /\ call.ret.overall_score >= 40

\* C2: detect_all_patterns on the empty password raises nothing and returns
\* a neutral report: no detector found anything, overall_score is 0 and
\* there are no warnings.
EmptyPasswordNeutralReport ==
    (call.op = "detect_all_patterns" /\ Arg = <<>>) =>
        /\ "raised" \notin DOMAIN call.ret
        /\ \A d \in {"keyboard_patterns", "sequential_patterns",
                     "repetition_patterns", "leet_speak", "date_patterns",
                     "common_words"} : ~call.ret[d].found
        /\ call.ret.overall_score = 0
        /\ call.ret.warnings = <<>>

\* C3: when two detect_all_patterns calls on one PatternDetector interleave,
\* each returns the report, pattern_count included, that it returns when it
\* runs alone.
ParallelCallsReturnSoloReport ==
    \A t \in Threads :
        threads[t].pc = "done" =>
            threads[t].ret = DetectCall(<<>>, outcomes[threads[t].arg].run).ret

\* C4: both components are stateless: after any sequence of calls the
\* detector and the calculator hold what they held when constructed, and
\* nothing derived from a password.
ComponentsStateless ==
    /\ detected_patterns = <<>>
    /\ calculation_history = <<>>

\* C5: detect_all_patterns run twice on the same password, and
\* analyze_complete run twice on the same password, return the same report
\* both times.
RepeatedCallSameReport ==
    (repeat.same /\ call.op \in {"detect_all_patterns", "analyze_complete"})
        => call.ret = repeat.ret

\* the second of two calls on a password in which the detectors found
\* patterns, the first having left them in self.detected_patterns
RepeatedCallSameReportWitness ==
    /\ repeat.same
    /\ Returned("detect_all_patterns")
    /\ call.ret.pattern_count > 1
    /\ calculation_history = <<>>

\* the limbs of a \div d and a % d, for 0 < d < 10000
RECURSIVE BigDivSmall(_, _)
BigDivSmall(a, d) ==
    IF a = <<>> THEN [quot |-> <<>>, rem |-> 0]
    ELSE LET high == BigDivSmall(Tail(a), d)
             t == high.rem * 10000 + Head(a)
         IN  [quot |-> <<t \div d>> \o high.quot, rem |-> t % d]

\* without the zero limbs at the most significant end
RECURSIVE BigStrip(_)
BigStrip(a) ==
    IF Len(a) > 1 /\ a[Len(a)] = 0 THEN BigStrip(SubSeq(a, 1, Len(a) - 1)) ELSE a

\* a is base ** exponent: dividing it exponent times by base leaves 1 and
\* never a remainder
RECURSIVE IsExactPower(_, _, _)
IsExactPower(a, base, exponent) ==
    IF exponent = 0 THEN a = <<1>>
    ELSE LET d == BigDivSmall(a, base)
         IN  d.rem = 0 /\ IsExactPower(BigStrip(d.quot), base, exponent - 1)

\* C6: for every non-empty password calculate_password_entropy returns
\* entropy_bits >= 0 and combinations = pool_size ** length exactly, with
\* no wrap-around or truncation at a fixed width.
CombinationsExact ==
    (call.op = "calculate_password_entropy" /\ Arg # <<>>) =>
        /\ "raised" \notin DOMAIN call.ret
        /\ call.ret.entropy_bits >= 0
        /\ call.ret.combinations = BigStrip(call.ret.combinations)
        /\ \A k \in 1..Len(call.ret.combinations) :
              call.ret.combinations[k] \in 0..9999
        /\ IsExactPower(call.ret.combinations, call.ret.pool_size, Len(Arg))

\* a number of combinations above 2 ** 64 (more than 10 ** 20)
CombinationsExactWitness ==
    /\ Returned("calculate_password_entropy")
    /\ Arg # <<>>
    /\ Len(call.ret.combinations) > 5

\* C7: analyze_complete on the empty password raises nothing and returns
\* an all-zero report; math.log2 is never given a pool size of 0; and the
\* pool size is 0 for the empty password only.
EmptyPasswordZeroReport ==
    /\ (call.op = "analyze_complete" /\ Arg = <<>>) =>
          /\ "raised" \notin DOMAIN call.ret
          /\ call.ret.shannon_entropy = 0
          /\ call.ret.pool_size = 0
          /\ call.ret.password_entropy = 0
          /\ call.ret.total_combinations = <<0>>
          /\ call.ret.ideal_entropy = 0
          /\ call.ret.efficiency_percentage = 0
    /\ call.op \in {"analyze_complete", "calculate_password_entropy"} =>
          IF "raised" \in DOMAIN call.ret THEN call.ret.raised # "ValueError"
          ELSE call.ret.pool_size = 0 <=> Arg = <<>>

\* analyze_complete has returned for the empty password
EmptyPasswordZeroReportWitness ==
    /\ Returned("analyze_complete")
    /\ Arg = <<>>
    /\ call.ret.length = 0

\* the reports of ret are those of the passwords, each once: some
\* rearrangement of the inputs gives ret
IsRearrangement(ret) ==
    \E f \in [1..Len(ret) -> 1..Len(passwords)] :
        /\ \A j, k \in 1..Len(ret) : f[j] = f[k] => j = k
        /\ \A k \in 1..Len(ret) :
              /\ ret[k].password_preview = PasswordPreview(passwords[f[k]])
              /\ ret[k].length = Len(passwords[f[k]])
              /\ ret[k].password_entropy = outcomes[f[k]].analyze.ret.password_entropy

\* C8: compare_passwords returns one report for each password given, and
\* in the list returned the password_entropy of a report is never below
\* that of the next one.
ComparedSortedByEntropy ==
    call.op = "compare_passwords" =>
        /\ Len(call.ret) = Len(passwords)
        /\ IsRearrangement(call.ret)
        /\ \A k \in 1..(Len(call.ret) - 1) :
              call.ret[k].password_entropy >= call.ret[k + 1].password_entropy

\* a list given with a weaker password before a stronger one
ComparedSortedByEntropyWitness ==
    /\ call.op = "compare_passwords"
    /\ Len(call.ret) > 1
    /\ outcomes[1].analyze.ret.password_entropy
         < outcomes[2].analyze.ret.password_entropy
    /\ call.ret[1].password_entropy > call.ret[Len(call.ret)].password_entropy

\* C9: get_entropy_strength gives every entropy one label, each band
\* including its lower bound: below 28 Very Weak, from 28 Weak, from 36
\* Reasonable, from 60 Strong, from 128 Very Strong.
StrengthBandsLowerInclusive ==
    call.op = "get_entropy_strength" =>
        /\ call.arg < 2800 <=> call.ret = "Very Weak"
        /\ (2800 <= call.arg /\ call.arg < 3600) <=> call.ret = "Weak"
        /\ (3600 <= call.arg /\ call.arg < 6000) <=> call.ret = "Reasonable"
        /\ (6000 <= call.arg /\ call.arg < 12800) <=> call.ret = "Strong"
        /\ 12800 <= call.arg <=> call.ret = "Very Strong"

\* the label of a breakpoint
StrengthBandsLowerInclusiveWitness ==
    /\ call.op = "get_entropy_strength"
    /\ call.arg \in {2800, 3600, 6000, 12800}
    /\ call.ret # "Very Weak"

\* the unit and the decimals _format_time gave
Band(ret) ==
    IF ret.unit = "Instant" THEN <<"Instant", 1>> ELSE <<ret.unit, ret.decimals>>

\* C10: _format_time gives every number of seconds one unit, a year being
\* 31,536,000 seconds: below 1 Instant, below 60 seconds, below 3600
\* minutes, below 86400 hours, below a year days, below 100 years years,
\* below 1000 years years without decimals, below 1e6 years thousand
\* years, below 1e9 years million years, then billion years; a breakpoint
\* is in the higher band; 0.5 gives Instant and 90 gives minutes.
TimeBandsLowerInclusive ==
    call.op = "_format_time" =>
        LET x == call.arg
            band == Band(call.ret)
        IN  /\ x < 0 <=> band = <<"Instant", 1>>
            /\ (0 <= x /\ x < 5906891) <=> band = <<"seconds", 1>>
            /\ (5906891 <= x /\ x < 11813781) <=> band = <<"minutes", 1>>
            /\ (11813781 <= x /\ x < 16398744) <=> band = <<"hours", 1>>
            /\ (16398744 <= x /\ x < 24910496) <=> band = <<"days", 1>>
            /\ (24910496 <= x /\ x < 31554353) <=> band = <<"years", 1>>
            /\ (31554353 <= x /\ x < 34876281) <=> band = <<"years", 0>>
            /\ (34876281 <= x /\ x < 44842065) <=> band = <<"thousand years", 1>>
            /\ (44842065 <= x /\ x < 54807849) <=> band = <<"million years", 1>>
            /\ 54807849 <= x <=> band = <<"billion years", 1>>
            /\ x = -1000000 => call.ret.unit = "Instant"
            /\ x = 6491853 => call.ret.unit = "minutes"

\* the band of a breakpoint
TimeBandsLowerInclusiveWitness ==
    /\ call.op = "_format_time"
    /\ call.arg \in {LgSecond, LgMinute, LgHour, LgDay, LgYear, LgHundredYears,
                     LgThousandYears, LgMillionYears, LgBillionYears}
    /\ call.ret.unit # "Instant"

\* the five terms of the score that come from a count of findings
CountTerms(ret) ==
    Min(20, ret.keyboard_patterns.count * 10)
    + Min(20, ret.sequential_patterns.count * 8)
    + Min(15, ret.repetition_patterns.count * 7)
    + Min(15, ret.date_patterns.count * 10)
    + Min(20, ret.common_words.count * 15)

\* C11 as stated: overall_score is min(100, the sum of the six terms), the
\* leetspeak term being min(10, leet_score * 3) whatever leet_score is.
ScoreIsSumOfTerms ==
    Returned("detect_all_patterns") =>
        call.ret.overall_score
          = Min(100, CountTerms(call.ret) + Min(10, call.ret.leet_speak.leet_score * 3))

\* C11 as amended: overall_score is min(100, the sum of the six terms), the
\* leetspeak term being min(10, leet_score * 3) when leet_score >= 2 and 0
\* when it is below 2; the character-structure flags add nothing.
ScoreIsSumOfFoundTerms ==
    Returned("detect_all_patterns") =>
        call.ret.overall_score
          = Min(100, CountTerms(call.ret)
                     + (IF call.ret.leet_speak.leet_score >= 2
                        THEN Min(10, call.ret.leet_speak.leet_score * 3) ELSE 0))

\* a report with a leet_score of 1 and the common structure followed
ScoreIsSumOfFoundTermsWitness ==
    /\ Returned("detect_all_patterns")
    /\ call.ret.leet_speak.leet_score = 1
    /\ call.ret.character_patterns.follows_common_structure

\* the categories in the order of the warnings, each with its string
WarningOfCategory ==
    << <<"keyboard_patterns", "Contains keyboard pattern sequences">>,
       <<"sequential_patterns", "Contains sequential characters (abc, 123)">>,
       <<"repetition_patterns", "Contains repeated characters or sequences">>,
       <<"leet_speak", "Uses predictable leetspeak substitutions">>,
       <<"date_patterns", "Contains date or year information">>,
       <<"common_words", "Based on common password words">>,
       <<"character_patterns", "Follows predictable password structure">> >>

\* the category has a finding in the report
HadFinding(ret, category) ==
    CASE category = "leet_speak" -> ret.leet_speak.leet_score >= 2
      [] category = "character_patterns" ->
            ret.character_patterns.follows_common_structure
      [] OTHER -> ret[category].count > 0

OfType(findings, type) == SelectSeq(findings, LAMBDA f : f.type = type)

\* <<start, length>> of the maximal runs of one character of length >= 3
MaximalRuns(s) ==
    {r \in (0..Len(s)) \X (3..Len(s)) :
        /\ r[1] + r[2] <= Len(s)
        /\ \A k \in 1..r[2] : s[r[1] + k] = s[r[1] + 1]
        /\ r[1] > 0 => s[r[1]] # s[r[1] + 1]
        /\ r[1] + r[2] < Len(s) => s[r[1] + r[2] + 1] # s[r[1] + 1]}

\* C13: the character_repetition findings of detect_repetition_patterns are
\* the maximal runs of one character of length >= 3, one finding for each
\* with its count the length and its position the start of the run, listed
\* left to right and not overlapping; six identical characters give one
\* finding with count 6.
CharacterRunsMaximal ==
    Returned("detect_repetition_patterns") =>
        LET runs == OfType(call.ret.repetitions, "character_repetition")
        IN  /\ {<<runs[k].position, runs[k].count>> : k \in 1..Len(runs)}
                 = MaximalRuns(Arg)
            /\ \A k \in 1..Len(runs) : runs[k].character = Arg[runs[k].position + 1]
            /\ \A k \in 1..(Len(runs) - 1) :
                  runs[k].position + runs[k].count <= runs[k + 1].position
            /\ Arg = <<97, 97, 97, 97, 97, 97>> =>
                  Len(runs) = 1 /\ runs[1].count = 6 /\ runs[1].position = 0

\* two runs in one password, the first longer than 3
CharacterRunsMaximalWitness ==
    /\ Returned("detect_repetition_patterns")
    /\ LET runs == OfType(call.ret.repetitions, "character_repetition")
       IN  Len(runs) = 2 /\ runs[1].count > 3 /\ runs[2].position > runs[1].count

\* the block of length L at offset i is followed at once by a copy of itself
BlockRepeatsAt(s, L, i) ==
    /\ i + 2 * L <= Len(s)
    /\ \A k \in 1..L : s[i + k] = s[i + L + k]

\* the blocks of length L from offset i on are m copies of the first
CopiesAt(s, L, i, m) ==
    /\ i + m * L <= Len(s)
    /\ \A k \in (L + 1)..(m * L) : s[i + k] = s[i + ((k - 1) % L) + 1]

\* C18: for each block length L from 2 to floor(n/2),
\* detect_repetition_patterns reports at most one sequence_repetition
\* finding: the block at the smallest offset at which a block of length L
\* is followed at once by a copy of itself, with repeat_count the number of
\* consecutive copies from that offset (>= 2); it reports none for an L of
\* which no block repeats, and none for another L.
FirstRepeatedBlockPerLength ==
    Returned("detect_repetition_patterns") =>
        LET blocks == OfType(call.ret.repetitions, "sequence_repetition")
            ofLen(L) == SelectSeq(blocks, LAMBDA f : Len(f.sequence) = L)
            offsets(L) == {i \in 0..Len(Arg) : BlockRepeatsAt(Arg, L, i)}
        IN  /\ \A k \in 1..Len(blocks) :
                  Len(blocks[k].sequence) \in 2..(Len(Arg) \div 2)
            /\ \A L \in 2..(Len(Arg) \div 2) :
                  IF offsets(L) = {} THEN ofLen(L) = <<>>
                  ELSE /\ Len(ofLen(L)) = 1
                       /\ LET f == ofLen(L)[1]
                          IN  /\ f.position \in offsets(L)
                              /\ \A i \in offsets(L) : f.position <= i
                              /\ f.sequence
                                   = SubSeq(Arg, f.position + 1, f.position + L)
                              /\ f.repeat_count >= 2
                              /\ CopiesAt(Arg, L, f.position, f.repeat_count)
                              /\ ~CopiesAt(Arg, L, f.position, f.repeat_count + 1)

\* a block that repeats from two offsets, reported at the first one, which
\* is not the start of the password, with three copies or more
FirstRepeatedBlockPerLengthWitness ==
    /\ Returned("detect_repetition_patterns")
    /\ \E k \in 1..Len(call.ret.repetitions) :
          LET f == call.ret.repetitions[k]
          IN  /\ f.type = "sequence_repetition"
              /\ f.position > 0
              /\ f.repeat_count >= 3
              /\ BlockRepeatsAt(Arg, Len(f.sequence), f.position + 1)

\* the four characters from index i (0-based) on are a year from 1900 to
\* current_year + 10
YearAt(s, i) ==
    /\ i + 4 <= Len(s)
    /\ \A k \in 1..4 : s[i + k] \in 48..57
    /\ LET year == (s[i + 1] - 48) * 1000 + (s[i + 2] - 48) * 100
                   + (s[i + 3] - 48) * 10 + (s[i + 4] - 48)
       IN  1900 <= year /\ year <= current_year + 10

\* C14: detect_date_patterns reports a year finding for every position of
\* the password at which four digits are a year from 1900 to
\* current_year + 10, also where that year overlaps another 4-digit year
\* (as in '201990').
YearFoundAtEveryPosition ==
    Returned("detect_date_patterns") =>
        \A i \in 0..Len(Arg) :
            YearAt(Arg, i) =>
                \E k \in 1..Len(call.ret.dates) :
                    /\ call.ret.dates[k].type = "year"
                    /\ call.ret.dates[k].position = i

\* +1 for a forward finding, -1 for a backward one
StepOf(f) ==
    IF f.type \in {"alphabetic_forward", "numeric_forward"} THEN 1 ELSE -1

\* C17: every run that detect_sequential_patterns records is maximal: one
\* more character on its left or on its right does not continue its step
\* of +1 or -1, so a stretch gives one finding and not one for each offset
\* inside it ('abcde' gives 'abcde' only).
SequentialRunsMaximal ==
    Returned("detect_sequential_patterns") =>
        LET s == Lower(Arg)
        IN  /\ \A k \in 1..Len(call.ret.sequences) :
                  LET f == call.ret.sequences[k]
                      first == f.position + 1
                      last == f.position + f.length
                  IN  /\ first > 1 => s[first - 1] # s[first] - StepOf(f)
                      /\ last < Len(s) => s[last + 1] # s[last] + StepOf(f)
            /\ Arg = <<97, 98, 99, 100, 101>> =>
                  \A k \in 1..Len(call.ret.sequences) :
                      call.ret.sequences[k].sequence = Arg

\* the first character is uppercase, a lowercase character lies at an
\* index (0-based) from lo to hi, the last character is a digit or special
CommonStructure(s, lo, hi) ==
    /\ IsUpper(s[1])
    /\ \E i \in lo..hi : i + 1 \in 1..Len(s) /\ IsLower(s[i + 1])
    /\ (IsDigit(s[Len(s)]) \/ ~IsAlnum(s[Len(s)]))

\* C19 as stated: follows_common_structure is true exactly when the first
\* character is uppercase, a lowercase character lies strictly between
\* index 1 and index length-2, and the last character is a digit or a
\* special character.
StructureMiddleStrictlyInside ==
    (Returned("analyze_character_patterns") /\ Arg # <<>>) =>
        (call.ret.follows_common_structure
           <=> CommonStructure(Arg, 2, Len(Arg) - 3))

\* C19 as amended: follows_common_structure is true exactly when the first
\* character is uppercase, a lowercase character lies at an index from 1 to
\* length-3, and the last character is a digit or a special character; a
\* lowercase character only at index 0, length-2 or length-1 does not do.
StructureMiddleFromIndexOne ==
    (Returned("analyze_character_patterns") /\ Arg # <<>>) =>
        (call.ret.follows_common_structure
           <=> CommonStructure(Arg, 1, Len(Arg) - 3))

\* the flag set for a password whose only lowercase character is at index 1
StructureMiddleFromIndexOneWitness ==
    /\ Returned("analyze_character_patterns")
    /\ Len(Arg) >= 4
    /\ call.ret.follows_common_structure
    /\ \A k \in 1..Len(Arg) : IsLower(Arg[k]) <=> k = 2

\* the criteria of analyze_password that a password satisfies
SatisfiedCriteria(s) ==
    LET has(set) == \E k \in 1..Len(s) : s[k] \in set
    IN  { c \in {"length >= 8", "length >= 12", "uppercase", "lowercase", "digit",
                 "special"} :
            \/ c = "length >= 8" /\ Len(s) >= 8
            \/ c = "length >= 12" /\ Len(s) >= 12
            \/ c = "uppercase" /\ has(65..90)
            \/ c = "lowercase" /\ has(97..122)
            \/ c = "digit" /\ has(48..57)
            \/ c = "special" /\ has({33, 34, 35, 36, 37, 38, 40, 41, 42, 44, 46,
                                      58, 60, 62, 63, 64, 94, 123, 124, 125}) }

CharacterClasses(s) ==
    SatisfiedCriteria(s) \cap {"uppercase", "lowercase", "digit", "special"}

\* C15: the score of analyze_password is the number of the six criteria
\* (length >= 8, length >= 12, an uppercase letter, a lowercase letter, a
\* digit, a listed special character) that the password satisfies, so it lies
\* in 0..6, and the reported length is the password's; get_strength_label
\* gives Weak up to 2, Medium for 3 and 4, Strong for 5 and 6, so a password
\* shorter than 8 of one character class is Weak and one of length >= 12 with
\* all four classes is Strong.
ScoreCountsCriteria ==
    /\ Returned("analyze_password") =>
          /\ call.ret.score = Cardinality(SatisfiedCriteria(passwords[1]))
          /\ call.ret.score \in 0..6
          /\ call.ret.length = Len(passwords[1])
    /\ call.op = "get_strength_label" =>
          /\ call.arg <= 2 => call.ret = "Weak"
          /\ call.arg \in {3, 4} => call.ret = "Medium"
          /\ call.arg \in {5, 6} => call.ret = "Strong"
          /\ (Len(passwords[1]) < 8 /\ Cardinality(CharacterClasses(passwords[1])) = 1)
                => call.ret = "Weak"
          /\ (Len(passwords[1]) >= 12 /\ Cardinality(CharacterClasses(passwords[1])) = 4)
                => call.ret = "Strong"

ScoreCountsCriteriaWitness ==
    /\ call.op = "get_strength_label"
    /\ Len(passwords[1]) >= 12
    /\ Cardinality(CharacterClasses(passwords[1])) = 4
    /\ call.arg = 6
    /\ call.ret = "Strong"

\* whether the response lists the tail of the password's hash
TailListed(response) ==
    \E k \in 1..Len(response.lines) : response.lines[k].suffix = "tail"

\* C16: check_pwned_password never raises and ends in one of three outcomes:
\* (True, count > 0) when the response lists the hash suffix, (False, 0)
\* when it does not, (None, message) when the status is not 200 or the
\* connection failed; and then the /analyze handler still answers with the
\* full analysis and breach_count 0.
LookupEndsInOneOfThreeOutcomes ==
    /\ call.op = "check_pwned_password" =>
          /\ "raised" \notin DOMAIN call.ret
          /\ IF input.response.failed \/ input.response.status_code # 200
             THEN call.ret.is_pwned = "None" /\ "message" \in DOMAIN call.ret
             ELSE IF TailListed(input.response)
             THEN call.ret.is_pwned = "True" /\ call.ret.count > 0
             ELSE call.ret.is_pwned = "False" /\ call.ret.count = 0
    /\ call.op = "analyze" /\ passwords[1] # <<>> =>
          /\ "raised" \notin DOMAIN call.ret
          /\ (input.response.failed \/ input.response.status_code # 200) =>
                /\ call.ret.status = 200
                /\ call.ret.json.is_breached = "None"
                /\ call.ret.json.breach_count = 0
                /\ call.ret.json.length = Len(passwords[1])
\* the crack-time estimates that the last call returned
Estimates ==
    IF call.op = "analyze_complete" THEN call.ret.crack_time_estimates ELSE call.ret

\* the seconds (as log2 in millionths) that a formatted time shows
SecondsShown(time) ==
    time.value
    + (CASE time.unit = "seconds" -> 0
         [] time.unit = "minutes" -> LgMinute
         [] time.unit = "hours" -> LgHour
         [] time.unit = "days" -> LgDay
         [] time.unit = "years" -> LgYear
         [] time.unit = "thousand years" -> LgYear + LgThousand
         [] time.unit = "million years" -> LgYear + LgMillion
         [] time.unit = "billion years" -> LgYear + LgBillion)

\* C20: for a password of up to 128 characters of the 94-character pool,
\* estimate_crack_time, and analyze_complete with it, raises no overflow
\* error and returns a formatted average_case and worst_case, the seconds
\* of the worst case being exactly twice those of the average case.
CrackTimeWithinFloatRange ==
    (/\ call.op \in {"estimate_crack_time", "analyze_complete"}
     /\ passwords[1] # <<>>
     /\ Len(passwords[1]) <= 128
     /\ \A k \in 1..Len(passwords[1]) : passwords[1][k] \in 33..126)
    => /\ "raised" \notin DOMAIN call.ret
       /\ {"average_case", "worst_case"} \subseteq DOMAIN Estimates
       /\ IF Estimates.worst_case.unit = "Instant"
          THEN Estimates.average_case.unit = "Instant"
          ELSE IF Estimates.average_case.unit = "Instant"
          THEN SecondsShown(Estimates.worst_case) < LgSecond + 1000000
          ELSE SecondsShown(Estimates.worst_case)
                  = SecondsShown(Estimates.average_case) + 1000000

CrackTimeWithinFloatRangeWitness ==
    /\ call.op = "estimate_crack_time"
    /\ Len(passwords[1]) = 128
    /\ _calculate_pool_size(passwords[1]) = 94
    /\ "raised" \notin DOMAIN call.ret
    /\ call.ret.worst_case.unit = "billion years"
\* C21: every finding of detect_keyboard_patterns, of whichever type, is a
\* pattern of at least 3 characters that occurs in the lowercased password;
\* a password without such a sequence, as the single letter 'p', has
\* found = false and gets no keyboard points in overall_score.
KeyboardFindingsAreSequences ==
    Returned("detect_all_patterns") =>
        LET keyboard == call.ret.keyboard_patterns
        IN  /\ \A k \in 1..Len(keyboard.patterns) :
                  /\ Len(keyboard.patterns[k].pattern) >= 3
                  /\ IsSubstr(keyboard.patterns[k].pattern, Lower(Arg))
            /\ Arg = <<112>> =>
                  /\ ~keyboard.found
                  /\ call.ret.overall_score = 0

\* C22: in detect_sequential_patterns a finding typed alphabetic_forward or
\* alphabetic_backward consists of letters only and a finding typed
\* numeric_forward or numeric_backward of digits only, so '123' is reported
\* once, under a numeric type, and counts once.
SequentialTypesMatchCharacters ==
    Returned("detect_sequential_patterns") =>
        /\ \A k \in 1..Len(call.ret.sequences) :
              LET f == call.ret.sequences[k]
              IN  /\ f.type \in {"alphabetic_forward", "alphabetic_backward"} =>
                        \A j \in 1..Len(f.sequence) : f.sequence[j] \in 97..122
                  /\ f.type \in {"numeric_forward", "numeric_backward"} =>
                        \A j \in 1..Len(f.sequence) : f.sequence[j] \in 48..57
        /\ Arg = <<49, 50, 51>> =>
              /\ call.ret.count = 1
              /\ call.ret.sequences[1].type = "numeric_forward"
====
